---- MODULE Spec2Model ----
(***************************************************************************)
(* Model of the asynchronous bulk interpreter:                             *)
(*   src/src/lib/async.cpp        connect / receive / disconnect           *)
(*   src/src/lib/interpreter.cpp  Worker (thread pool), Interpreter::Impl  *)
(*                                 and Interpreter                         *)
(* The Reader (reader.h) is not part of the sources at hand; it is         *)
(* modelled from its description as fixed-size grouping of lines.          *)
(*                                                                         *)
(* A byte is a one-character string, a line (statement) is a sequence of   *)
(* bytes, a block (StatementContainer) is a sequence of lines.             *)
(***************************************************************************)
EXTENDS Integers, Sequences, FiniteSets, Bags, TLC

VARIABLES
    workers,      \* Worker objects: worker id -> Worker record
    intrps,       \* Interpreter objects in creation order (Interpreter::Impl)
    connections,  \* g_conn_handler.connections: handle -> index into intrps
    next_id,      \* g_conn_handler.next_id
    guard,        \* g_conn_handler.guard: the caller holding it, or NoThread
    th,           \* the calling threads: position and locals of each
    ncalls,       \* number of boundary calls started so far
    returned,     \* handles returned by connect, in order of return
    logger        \* metrics reports handed to the Logger, in order

vars == <<workers, intrps, connections, next_id, guard, th, ncalls, returned, logger>>

----------------------------------------------------------------------------
(* Bounds *)

MaxThreads == 2      \* thread counts tried for a Worker used on its own
MaxSends == 3        \* send() calls on a Worker used on its own
MaxCalls == 3        \* boundary calls in the concurrent system
MaxSeqCalls == 4     \* boundary calls in the sequential system
MaxLiveCalls == 3    \* boundary calls under fair scheduling
MaxChunk == 2        \* bytes per receive in the sequential system
MaxBulk == 2         \* block sizes passed to connect
MaxConns == 2        \* connections opened
MaxIntrpCalls == 3   \* calls on an Interpreter used on its own
MaxLockCalls == 3    \* send() and stop() calls with the Worker's lock step by step

(* Program constants *)

nthreads_per_connection == 2
BufferCapacity == 1024

NoThread == 0
NL == "\n"

----------------------------------------------------------------------------
(* Worker : the thread pool of interpreter.cpp                             *)

Metrics0 == [nblocks |-> 0, nstatements |-> 0]

\* Owners of Worker::guard: nobody, worker thread id, calling thread id.
\* A section under this lock takes no other lock and does not block, so it
\* is one step wherever the lock itself is not the subject; the lock is
\* taken and released in steps of their own in the section "Worker::guard
\* step by step" below.
Nobody == [kind |-> "none", id |-> 0]
WorkerThread(i) == [kind |-> "worker", id |-> i]
CallingThread(t) == [kind |-> "caller", id |-> t]

\* State of a Worker right after its constructor: every thread has been
\* started and is about to take the lock at the top of its loop.
\* sent and jobs are histories: the blocks pushed by send() (with the value
\* of stopped at that moment, and the number of threads that had not yet
\* made their last drain) and the job invocations (thread, block).
NewWorker(nthreads) ==
    [ thread_metrics |-> [i \in 1..nthreads |-> Metrics0],
      thread_pool    |-> [i \in 1..nthreads |->
                            [pc |-> "lock", exit |-> FALSE,
                             bulks_local |-> <<>>, joinable |-> TRUE]],
      guard          |-> Nobody,
      bulks          |-> <<>>,
      stopped        |-> FALSE,
      sent           |-> <<>>,
      jobs           |-> <<>> ]

Threads(wk) == DOMAIN wk.thread_pool

Waiting(wk) == {i \in Threads(wk) : wk.thread_pool[i].pc = "waiting"}

\* cv_bulks.notify_one(): wakes one of the waiting threads, if there is one.
NotifyChoices(wk) == IF Waiting(wk) = {} THEN {0} ELSE Waiting(wk)

NotifyOne(wk, i) ==
    IF i = 0 THEN wk
    ELSE [wk EXCEPT !.thread_pool[i].pc = "lock"]

NotifyAll(wk) ==
    [wk EXCEPT !.thread_pool =
        [i \in Threads(wk) |->
            IF wk.thread_pool[i].pc = "waiting"
            THEN [wk.thread_pool[i] EXCEPT !.pc = "lock"]
            ELSE wk.thread_pool[i]]]

\* the threads that have not read stopped as true at line 65
Live(wk) == {i \in Threads(wk) : ~wk.thread_pool[i].exit}

\* Worker::send: push_back under the lock, then notify_one.
SendBadFront(wk, stms, wake) ==
    NotifyOne([wk EXCEPT !.bulks = <<stms>> \o @,
                         !.sent = Append(@, [stms |-> stms, after_stop |-> wk.stopped,
                                           live |-> Cardinality(Live(wk))])],
              wake)

Send(wk, stms, wake) ==
    NotifyOne([wk EXCEPT !.bulks = Append(@, stms),
                         !.sent = Append(@, [stms |-> stms, after_stop |-> wk.stopped,
                                           live |-> Cardinality(Live(wk))])],
              wake)

\* Worker::stop: set stopped under the lock, then notify_all.
StopBadNoNotify(wk) == [wk EXCEPT !.stopped = TRUE]

Stop(wk) == NotifyAll([wk EXCEPT !.stopped = TRUE])

\* Worker::join returns once every thread has run to its end.
AllExitedBadNoWait(wk) == TRUE

AllExited(wk) == \A i \in Threads(wk) : wk.thread_pool[i].pc = "done"

Join(wk) ==
    [wk EXCEPT !.thread_pool =
        [i \in Threads(wk) |-> [wk.thread_pool[i] EXCEPT !.joinable = FALSE]]]

Joined(wk) == \A i \in Threads(wk) : ~wk.thread_pool[i].joinable

\* Worker::operator(), lines 60-69: take the lock, wait for the predicate,
\* read stopped, swap the queue out, unlock.  With the predicate false the
\* thread releases the lock and sleeps on cv_bulks.
DrainBadExit(wk, i) ==
    IF wk.stopped
    THEN [wk EXCEPT !.thread_pool[i] = [@ EXCEPT !.exit = TRUE, !.pc = "done"]]
    ELSE IF wk.bulks # <<>>
    THEN [wk EXCEPT !.thread_pool[i] =
                        [@ EXCEPT !.bulks_local = wk.bulks, !.pc = "process"],
                    !.bulks = <<>>]
    ELSE [wk EXCEPT !.thread_pool[i].pc = "waiting"]

DrainBadLifo(wk, i) ==
    IF wk.stopped \/ wk.bulks # <<>>
    THEN [wk EXCEPT !.thread_pool[i] =
                        [@ EXCEPT !.exit = wk.stopped,
                                  !.bulks_local = [k \in 1..Len(wk.bulks) |->
                                                      wk.bulks[Len(wk.bulks) + 1 - k]],
                                  !.pc = IF wk.bulks = <<>> THEN "done" ELSE "process"],
                    !.bulks = <<>>]
    ELSE [wk EXCEPT !.thread_pool[i].pc = "waiting"]

Drain(wk, i) ==
    IF wk.stopped \/ wk.bulks # <<>>
    THEN [wk EXCEPT !.thread_pool[i] =
                        [@ EXCEPT !.exit = wk.stopped,
                                  !.bulks_local = wk.bulks,
                                  !.pc = IF wk.bulks = <<>> THEN "done" ELSE "process"],
                    !.bulks = <<>>]
    ELSE [wk EXCEPT !.thread_pool[i].pc = "waiting"]

\* Worker::operator(), lines 71-77: run the job on the next drained block
\* and count it; after the last one go back to the top of the loop, or
\* leave when exit was set.
RunJobBadOnce(wk, i) ==
    LET t    == wk.thread_pool[i]
        stms == Head(t.bulks_local)
        rest == Tail(t.bulks_local)
    IN [wk EXCEPT !.jobs = Append(@, [thread |-> i, stms |-> stms]),
                  !.thread_metrics[i] =
                        [nblocks     |-> @.nblocks + 1,
                         nstatements |-> @.nstatements + Len(stms)],
                  !.thread_pool[i] =
                        [@ EXCEPT !.bulks_local = rest,
                                  !.pc = IF rest # <<>> THEN "process" ELSE "done"]]

RunJobBadDropOnExit(wk, i) ==
    LET t    == wk.thread_pool[i]
        stms == Head(t.bulks_local)
        rest == Tail(t.bulks_local)
    IN IF t.exit
       THEN [wk EXCEPT !.thread_pool[i] = [@ EXCEPT !.bulks_local = <<>>, !.pc = "done"]]
       ELSE [wk EXCEPT !.jobs = Append(@, [thread |-> i, stms |-> stms]),
                       !.thread_metrics[i] =
                             [nblocks     |-> @.nblocks + 1,
                              nstatements |-> @.nstatements + Len(stms)],
                       !.thread_pool[i] =
                             [@ EXCEPT !.bulks_local = rest,
                                       !.pc = IF rest # <<>> THEN "process" ELSE "lock"]]

RunJobBadBack(wk, i) ==
    LET t    == wk.thread_pool[i]
        n    == Len(t.bulks_local)
        stms == t.bulks_local[n]
        rest == SubSeq(t.bulks_local, 1, n - 1)
    IN [wk EXCEPT !.jobs = Append(@, [thread |-> i, stms |-> stms]),
                  !.thread_metrics[i] =
                        [nblocks     |-> @.nblocks + 1,
                         nstatements |-> @.nstatements + Len(stms)],
                  !.thread_pool[i] =
                        [@ EXCEPT !.bulks_local = rest,
                                  !.pc = IF rest # <<>> THEN "process"
                                         ELSE IF t.exit THEN "done" ELSE "lock"]]

RunJob(wk, i) ==
    LET t    == wk.thread_pool[i]
        stms == Head(t.bulks_local)
        rest == Tail(t.bulks_local)
    IN [wk EXCEPT !.jobs = Append(@, [thread |-> i, stms |-> stms]),
                  !.thread_metrics[i] =
                        [nblocks     |-> @.nblocks + 1,
                         nstatements |-> @.nstatements + Len(stms)],
                  !.thread_pool[i] =
                        [@ EXCEPT !.bulks_local = rest,
                                  !.pc = IF rest # <<>> THEN "process"
                                         ELSE IF t.exit THEN "done" ELSE "lock"]]

WorkerWait(w, i) ==
    /\ workers[w].thread_pool[i].pc = "lock"
    /\ workers' = [workers EXCEPT ![w] = Drain(@, i)]
    /\ UNCHANGED <<intrps, connections, next_id, guard, th, ncalls, returned, logger>>

WorkerJob(w, i) ==
    /\ workers[w].thread_pool[i].pc = "process"
    /\ workers' = [workers EXCEPT ![w] = RunJob(@, i)]
    /\ UNCHANGED <<intrps, connections, next_id, guard, th, ncalls, returned, logger>>

\* A condition variable may wake a waiting thread without a notification.
\* cv_bulks.wait(l, pred) goes back to sleep by itself while the predicate
\* is false, so such a wake-up shows only when the predicate holds.
WorkerSpurious(w, i) ==
    /\ workers[w].thread_pool[i].pc = "waiting"
    /\ workers[w].stopped \/ workers[w].bulks # <<>>
    /\ workers' = [workers EXCEPT ![w].thread_pool[i].pc = "lock"]
    /\ UNCHANGED <<intrps, connections, next_id, guard, th, ncalls, returned, logger>>

WorkerStep ==
    \E w \in DOMAIN workers : \E i \in Threads(workers[w]) :
        \/ WorkerWait(w, i)
        \/ WorkerJob(w, i)

WorkerWake ==
    \E w \in DOMAIN workers : \E i \in Threads(workers[w]) : WorkerSpurious(w, i)

----------------------------------------------------------------------------
(* Reader : the parsing boundary.  One line is one statement; a block is   *)
(* closed after block_size lines; on_eof flushes a non-empty partial block.*)
(* lines is the history of the lines handed to the reader.                 *)

NewReader(block_size) ==
    [ block_size |-> block_size,
      cur        |-> <<>>,
      metrics    |-> [nlines |-> 0, nstatements |-> 0, nblocks |-> 0],
      lines      |-> <<>>,
      eof        |-> FALSE ]

\* Reader::consume(line): the reader after the line, and the blocks it
\* notifies its subscribers with (none or one).
ReaderConsume(rd, line) ==
    LET cur    == Append(rd.cur, line)
        closed == Len(cur) >= rd.block_size
    IN [ reader |-> [rd EXCEPT
                        !.cur = IF closed THEN <<>> ELSE cur,
                        !.lines = Append(@, line),
                        !.metrics = [nlines      |-> @.nlines + 1,
                                     nstatements |-> @.nstatements + 1,
                                     nblocks     |-> @.nblocks + (IF closed THEN 1 ELSE 0)]],
         out    |-> IF closed THEN <<cur>> ELSE <<>> ]

\* Reader::on_eof()
ReaderOnEof(rd) ==
    [ reader |-> [rd EXCEPT
                    !.cur = <<>>,
                    !.eof = TRUE,
                    !.metrics.nblocks = @ + (IF rd.cur # <<>> THEN 1 ELSE 0)],
      out    |-> IF rd.cur # <<>> THEN <<rd.cur>> ELSE <<>> ]

----------------------------------------------------------------------------
(* Interpreter::Impl                                                       *)

LogWorker(r) == <<r, "log">>
FileWorker(r) == <<r, "file">>

\* Interpreter::Impl::Impl for the r-th Interpreter created.  buffer holds
\* the first buffer_size bytes of the array.  fed is the history of the
\* bytes passed to Impl::consume; erased records that disconnect has
\* taken the Interpreter out of the table.
NewInterpreter(r, name, block_size) ==
    [ name        |-> name,
      reader      |-> NewReader(block_size),
      log_worker  |-> LogWorker(r),
      file_worker |-> FileWorker(r),
      guard       |-> NoThread,
      stopped     |-> FALSE,
      buffer      |-> <<>>,
      fed         |-> <<>>,
      erased      |-> FALSE ]

\* The loop of Impl::consume from byte i of data up to the next call of
\* consume_available: the bytes before the next line terminator are stored
\* one by one at buffer_size; the loop stops behind a line terminator
\* ("line"), at the end of data ("end"), or at the byte for which
\* buffer.at(buffer_size) throws because buffer_size has reached the
\* capacity ("out_of_range").
ScanLine(buffer, data, i) ==
    LET ends == {j \in i..(Len(data) + 1) : j > Len(data) \/ data[j] = NL}
        stop == CHOOSE j \in ends : \A k \in ends : j <= k
        room == BufferCapacity - Len(buffer)
    IN IF stop - i > room
       THEN [buffer |-> buffer \o SubSeq(data, i, i + room - 1),
             i |-> i + room, event |-> "out_of_range"]
       ELSE [buffer |-> buffer \o SubSeq(data, i, stop - 1),
             i |-> IF stop > Len(data) THEN stop ELSE stop + 1,
             event |-> IF stop > Len(data) THEN "end" ELSE "line"]

\* Impl::consume(data) as one call on an Interpreter with the given buffer:
\* the lines handed to the reader are appended to lines; thrown tells that
\* the call ended in the exception of buffer.at().
RECURSIVE FeedAll(_, _, _, _)
FeedAll(buffer, lines, data, i) ==
    LET s == ScanLine(buffer, data, i)
    IN CASE s.event = "line" -> FeedAll(<<>>, Append(lines, s.buffer), data, s.i)
         [] s.event = "end" -> [buffer |-> s.buffer, lines |-> lines, thrown |-> FALSE]
         [] s.event = "out_of_range" -> [buffer |-> s.buffer, lines |-> lines, thrown |-> TRUE]

\* The lines handed to the reader when data is fed to a new Interpreter in
\* a single consume call and on_eof follows (lines 161-162 hand over a
\* partial line left in the buffer).
WholeLines(data) ==
    LET f == FeedAll(<<>>, <<>>, data, 1)
    IN IF f.buffer # <<>> THEN Append(f.lines, f.buffer) ELSE f.lines

\* The reader notifies its subscribers in the order they subscribed: the
\* log worker, then the file worker (Worker::on_block calls send).
Emit(ws, in, out, w1, w2) ==
    IF out = <<>> THEN ws
    ELSE [ws EXCEPT ![in.log_worker]  = Send(@, out[1], w1),
                    ![in.file_worker] = Send(@, out[1], w2)]

----------------------------------------------------------------------------
(* A Worker used on its own: producers call send(), a controller calls     *)
(* stop() and then join().                                                 *)

PoolId == <<0, "pool">>

PoolBlocks == { <<<<"a">>>>, <<<<"b">>>> }

\* A calling thread outside any call.  handle, data, bulk are the arguments
\* of the call in progress, intrp the InterpreterPtr copied out of the table,
\* i the loop index of Impl::consume; fault tells that the last call ended
\* with an exception; noop names the call ("receive", "disconnect") when
\* its handle was not in use at the lookup, and is "" otherwise.
NoCaller == [pc |-> "idle", handle |-> 0, data |-> <<>>, bulk |-> 0, i |-> 0,
             intrp |-> 0, fault |-> FALSE, noop |-> ""]

Callers == {1, 2}

InitPool ==
    /\ \E n \in 1..MaxThreads : workers = (PoolId :> NewWorker(n))
    /\ intrps = <<>>
    /\ connections = <<>>
    /\ next_id = 0
    /\ guard = NoThread
    /\ th = [t \in Callers |-> NoCaller]
    /\ ncalls = 0
    /\ returned = <<>>
    /\ logger = <<>>

PoolSend(stms) ==
    /\ Len(workers[PoolId].sent) < MaxSends
    /\ \E wake \in NotifyChoices(workers[PoolId]) :
          workers' = [workers EXCEPT ![PoolId] = Send(@, stms, wake)]
    /\ UNCHANGED <<intrps, connections, next_id, guard, th, ncalls, returned, logger>>

PoolStop ==
    /\ ~workers[PoolId].stopped
    /\ workers' = [workers EXCEPT ![PoolId] = Stop(@)]
    /\ UNCHANGED <<intrps, connections, next_id, guard, th, ncalls, returned, logger>>

PoolJoin ==
    /\ ~Joined(workers[PoolId])
    /\ AllExited(workers[PoolId])
    /\ workers' = [workers EXCEPT ![PoolId] = Join(@)]
    /\ UNCHANGED <<intrps, connections, next_id, guard, th, ncalls, returned, logger>>

NextPool ==
    \/ \E stms \in PoolBlocks : PoolSend(stms)
    \/ PoolStop
    \/ PoolJoin
    \/ WorkerStep
    \/ WorkerWake

SpecPool == InitPool /\ [][NextPool]_vars

\* The Worker as the Interpreter constructs it: with one thread (line 128)
\* or with nthreads_per_connection threads (line 129).
InitLock ==
    /\ \E n \in {1, nthreads_per_connection} : workers = (PoolId :> NewWorker(n))
    /\ intrps = <<>>
    /\ connections = <<>>
    /\ next_id = 0
    /\ guard = NoThread
    /\ th = [t \in Callers |-> NoCaller]
    /\ ncalls = 0
    /\ returned = <<>>
    /\ logger = <<>>

----------------------------------------------------------------------------
(* A Worker whose job is Impl::file_job, with a file system that may fail. *)

\* Impl::file_job, lines 216-224, run by thread i of the Worker on the next
\* drained block: when open() fails (ok false) the stream is in a failed
\* state, the writes, flush() and close() do nothing and no exception is
\* raised (the stream's exception mask is never set); the job returns and
\* lines 75-76 count the block either way.  The history of jobs records ok.
RunFileJob(wk, i, ok) ==
    LET stms == Head(wk.thread_pool[i].bulks_local)
    IN [RunJob(wk, i) EXCEPT !.jobs = Append(wk.jobs, [thread |-> i, stms |-> stms,
                                                       ok |-> ok])]

FileJob(w, i) ==
    /\ workers[w].thread_pool[i].pc = "process"
    /\ \E ok \in BOOLEAN : workers' = [workers EXCEPT ![w] = RunFileJob(@, i, ok)]
    /\ UNCHANGED <<intrps, connections, next_id, guard, th, ncalls, returned, logger>>

NextIO ==
    \/ \E stms \in PoolBlocks : PoolSend(stms)
    \/ PoolStop
    \/ PoolJoin
    \/ \E i \in Threads(workers[PoolId]) : WorkerWait(PoolId, i)
    \/ \E i \in Threads(workers[PoolId]) : FileJob(PoolId, i)
    \/ WorkerWake

SpecIO == InitLock /\ [][NextIO]_vars

----------------------------------------------------------------------------
(* Worker::guard step by step: a Worker used on its own, with the lock     *)
(* taken and released in steps of their own.                               *)

\* line 60: the thread takes the lock at the top of its loop
LockAcquire(w, i) ==
    /\ workers[w].thread_pool[i].pc = "lock"
    /\ workers[w].guard = Nobody
    /\ workers' = [workers EXCEPT ![w].guard = WorkerThread(i),
                                  ![w].thread_pool[i].pc = "locked"]
    /\ UNCHANGED <<intrps, connections, next_id, guard, th, ncalls, returned, logger>>

\* lines 61-69 with the lock held: the wait releases the lock when the
\* predicate is false; else the queue is swapped out and line 69 unlocks.
LockedDrainBadHold(wk, i) ==
    LET d == Drain(wk, i)
    IN [d EXCEPT !.guard = IF d.thread_pool[i].pc = "process" THEN wk.guard ELSE Nobody]

LockedDrain(wk, i) == [Drain(wk, i) EXCEPT !.guard = Nobody]

LockRelease(w, i) ==
    /\ workers[w].thread_pool[i].pc = "locked"
    /\ workers' = [workers EXCEPT ![w] = LockedDrain(@, i)]
    /\ UNCHANGED <<intrps, connections, next_id, guard, th, ncalls, returned, logger>>

LockBlocks == { <<<<"a">>>>, <<<<"b">>, <<"c">>>> }

\* a call of send(stms), line 82
SendCall(t, stms) ==
    /\ th[t].pc = "idle"
    /\ ncalls < MaxLockCalls
    /\ ncalls' = ncalls + 1
    /\ th' = [th EXCEPT ![t] = [NoCaller EXCEPT !.pc = "send", !.data = stms]]
    /\ UNCHANGED <<workers, intrps, connections, next_id, guard, returned, logger>>

\* line 84
SendLock(t) ==
    /\ th[t].pc = "send"
    /\ workers[PoolId].guard = Nobody
    /\ workers' = [workers EXCEPT ![PoolId].guard = CallingThread(t)]
    /\ th' = [th EXCEPT ![t].pc = "send_locked"]
    /\ UNCHANGED <<intrps, connections, next_id, guard, ncalls, returned, logger>>

\* lines 85-87
SendPush(t) ==
    /\ th[t].pc = "send_locked"
    /\ \E wake \in NotifyChoices(workers[PoolId]) :
          workers' = [workers EXCEPT ![PoolId] =
                         Send([@ EXCEPT !.guard = Nobody], th[t].data, wake)]
    /\ th' = [th EXCEPT ![t] = NoCaller]
    /\ UNCHANGED <<intrps, connections, next_id, guard, ncalls, returned, logger>>

\* a call of stop(), line 90
StopCall(t) ==
    /\ th[t].pc = "idle"
    /\ ncalls < MaxLockCalls
    /\ ~workers[PoolId].stopped
    /\ ncalls' = ncalls + 1
    /\ th' = [th EXCEPT ![t] = [NoCaller EXCEPT !.pc = "stop"]]
    /\ UNCHANGED <<workers, intrps, connections, next_id, guard, returned, logger>>

\* line 92
StopTake(t) ==
    /\ th[t].pc = "stop"
    /\ workers[PoolId].guard = Nobody
    /\ workers' = [workers EXCEPT ![PoolId].guard = CallingThread(t)]
    /\ th' = [th EXCEPT ![t].pc = "stop_locked"]
    /\ UNCHANGED <<intrps, connections, next_id, guard, ncalls, returned, logger>>

\* lines 93-95
StopFlag(t) ==
    /\ th[t].pc = "stop_locked"
    /\ workers' = [workers EXCEPT ![PoolId] = Stop([@ EXCEPT !.guard = Nobody])]
    /\ th' = [th EXCEPT ![t] = NoCaller]
    /\ UNCHANGED <<intrps, connections, next_id, guard, ncalls, returned, logger>>

LockCallerStep(t) ==
    \/ SendLock(t)
    \/ SendPush(t)
    \/ StopTake(t)
    \/ StopFlag(t)

LockWorkerStep(i) ==
    /\ i \in Threads(workers[PoolId])
    /\ (LockAcquire(PoolId, i) \/ LockRelease(PoolId, i))

NextLock ==
    \/ \E t \in Callers : \E stms \in LockBlocks : SendCall(t, stms)
    \/ \E t \in Callers : StopCall(t)
    \/ \E t \in Callers : LockCallerStep(t)
    \/ \E i \in 1..nthreads_per_connection : LockWorkerStep(i)
    \/ \E i \in Threads(workers[PoolId]) : WorkerJob(PoolId, i)
    \/ WorkerWake

SpecLock == InitLock /\ [][NextLock]_vars

\* Scheduling: a calling thread keeps running and gets the lock when it is
\* free; a worker thread gets through its section under the lock.  Nothing
\* is assumed about how long a job takes.
FairLock ==
    /\ SpecLock
    /\ \A t \in Callers : WF_vars(LockCallerStep(t))
    /\ \A i \in 1..nthreads_per_connection : WF_vars(LockWorkerStep(i))

----------------------------------------------------------------------------
(* async.cpp : the connection table                                        *)

Init ==
    /\ workers = <<>>
    /\ intrps = <<>>
    /\ connections = <<>>
    /\ next_id = 0
    /\ guard = NoThread
    /\ th = [t \in Callers |-> NoCaller]
    /\ ncalls = 0
    /\ returned = <<>>
    /\ logger = <<>>

Return(c) == [NoCaller EXCEPT !.noop = c.noop,
                             !.handle = IF c.noop = "" THEN 0 ELSE c.handle]

Throw(c) == [NoCaller EXCEPT !.fault = TRUE]

\* connections.count(id)
Count(conns, id) == IF id \in DOMAIN conns THEN 1 ELSE 0

\* The lookup of receive and disconnect: count(id) == 0 makes the call
\* return (0 stands for that), else the pointer is connections[id].
FindBadFloor(conns, id) ==
    LET below == {h \in DOMAIN conns : h <= id}
    IN IF below = {} THEN 0
       ELSE conns[CHOOSE h \in below : \A g \in below : g <= h]

Find(conns, id) == IF Count(conns, id) = 0 THEN 0 ELSE conns[id]

\* connections.emplace(id, ptr): no effect when the key is present
Emplace(conns, id, r) ==
    IF id \in DOMAIN conns THEN conns ELSE (id :> r) @@ conns

\* connections.erase(id)
EraseBadKeep(conns, id) == conns

Erase(conns, id) == [h \in DOMAIN conns \ {id} |-> conns[h]]

\* next_id++ : the value left in next_id
NextIdBadReuse(id) == id

NextId(id) == id + 1

\* A handle that no connect has returned, or that a disconnect has looked
\* up and taken out of the table.
InUse(h) ==
    \E r \in 1..Len(intrps) : intrps[r].name = h /\ ~intrps[r].erased

\* connect, line 27: the call starts by taking the table lock.
ConnectLock(t, bulk, maxc, maxconns) ==
    /\ th[t].pc = "idle"
    /\ ncalls < maxc
    /\ Len(intrps) < maxconns
    /\ guard = NoThread
    /\ guard' = t
    /\ ncalls' = ncalls + 1
    /\ th' = [th EXCEPT ![t] = [NoCaller EXCEPT !.pc = "connect", !.bulk = bulk]]
    /\ UNCHANGED <<workers, intrps, connections, next_id, returned, logger>>

\* connect, lines 28-30: allocate the id, construct the Interpreter (which
\* starts its worker threads), insert it, unlock, return the handle.
ConnectBody(t) ==
    /\ th[t].pc = "connect"
    /\ LET id == next_id
           r  == Len(intrps) + 1
       IN /\ next_id' = NextId(next_id)
          /\ intrps' = Append(intrps, NewInterpreter(r, id, th[t].bulk))
          /\ workers' = (LogWorker(r) :> NewWorker(1))
                           @@ (FileWorker(r) :> NewWorker(nthreads_per_connection))
                           @@ workers
          /\ connections' = Emplace(connections, id, r)
          /\ returned' = Append(returned, id)
    /\ guard' = NoThread
    /\ th' = [th EXCEPT ![t] = NoCaller]
    /\ UNCHANGED <<ncalls, logger>>

\* receive, line 38
ReceiveLock(t, h, data, maxc) ==
    /\ th[t].pc = "idle"
    /\ ncalls < maxc
    /\ guard = NoThread
    /\ guard' = t
    /\ ncalls' = ncalls + 1
    /\ th' = [th EXCEPT ![t] = [NoCaller EXCEPT !.pc = "receive", !.handle = h, !.data = data]]
    /\ UNCHANGED <<workers, intrps, connections, next_id, returned, logger>>

\* receive, lines 39-42: look the handle up, copy the pointer out, unlock.
ReceiveLookup(t) ==
    /\ th[t].pc = "receive"
    /\ guard' = NoThread
    /\ LET r    == Find(connections, th[t].handle)
           noop == IF InUse(th[t].handle) THEN "" ELSE "receive"
       IN th' = [th EXCEPT ![t] =
                    IF r = 0
                    THEN Return([@ EXCEPT !.noop = noop])
                    ELSE [@ EXCEPT !.pc = "consume", !.intrp = r, !.noop = noop]]
    /\ UNCHANGED <<workers, intrps, connections, next_id, ncalls, returned, logger>>

\* disconnect, line 52
DisconnectLock(t, h, maxc) ==
    /\ th[t].pc = "idle"
    /\ ncalls < maxc
    /\ guard = NoThread
    /\ guard' = t
    /\ ncalls' = ncalls + 1
    /\ th' = [th EXCEPT ![t] = [NoCaller EXCEPT !.pc = "disconnect", !.handle = h]]
    /\ UNCHANGED <<workers, intrps, connections, next_id, returned, logger>>

\* disconnect, lines 53-57: look the handle up, copy the pointer out, erase
\* the entry, unlock.
DisconnectLookupBadHold(t) ==
    /\ th[t].pc = "disconnect"
    /\ LET r    == Find(connections, th[t].handle)
           noop == IF InUse(th[t].handle) THEN "" ELSE "disconnect"
       IN IF r = 0
          THEN /\ th' = [th EXCEPT ![t] = Return([@ EXCEPT !.noop = noop])]
               /\ guard' = NoThread
               /\ UNCHANGED <<connections, intrps>>
          ELSE /\ th' = [th EXCEPT ![t] = [@ EXCEPT !.pc = "stop_check", !.intrp = r,
                                                    !.noop = noop]]
               /\ guard' = guard
               /\ connections' = Erase(connections, th[t].handle)
               /\ intrps' = [intrps EXCEPT ![r].erased = TRUE]
    /\ UNCHANGED <<workers, next_id, ncalls, returned, logger>>

DisconnectLookup(t) ==
    /\ th[t].pc = "disconnect"
    /\ guard' = NoThread
    /\ LET r    == Find(connections, th[t].handle)
           noop == IF InUse(th[t].handle) THEN "" ELSE "disconnect"
       IN IF r = 0
          THEN /\ th' = [th EXCEPT ![t] = Return([@ EXCEPT !.noop = noop])]
               /\ UNCHANGED <<connections, intrps>>
          ELSE /\ th' = [th EXCEPT ![t] = [@ EXCEPT !.pc = "stop_check", !.intrp = r,
                                                    !.noop = noop]]
               /\ connections' = Erase(connections, th[t].handle)
               /\ intrps' = [intrps EXCEPT ![r].erased = TRUE]
    /\ UNCHANGED <<workers, next_id, ncalls, returned, logger>>

----------------------------------------------------------------------------
(* Interpreter::consume                                                    *)

\* The value an unlocked read of priv_->stopped yields: the reads of lines
\* 240 and 251 race with the write of line 258, and see either value while
\* the writer is at it.
RacyStopped(r) ==
    IF \E u \in DOMAIN th : th[u].pc = "stop_set" /\ th[u].intrp = r
    THEN {TRUE, FALSE}
    ELSE {intrps[r].stopped}

\* line 240-241
ConsumeCheck(t) ==
    /\ th[t].pc = "consume"
    /\ \E v \in RacyStopped(th[t].intrp) :
          th' = [th EXCEPT ![t] = IF v THEN Return(@) ELSE [@ EXCEPT !.pc = "consume_lock"]]
    /\ UNCHANGED <<workers, intrps, connections, next_id, guard, ncalls, returned, logger>>

\* lines 243-245: take the Interpreter's lock; leave when stopped, else
\* enter Impl::consume.
ConsumeLockBadNoRecheck(t) ==
    /\ th[t].pc = "consume_lock"
    /\ LET r == th[t].intrp
       IN /\ intrps[r].guard = NoThread
          /\ th' = [th EXCEPT ![t] = [@ EXCEPT !.pc = "consume_loop", !.i = 1]]
          /\ intrps' = [intrps EXCEPT ![r].guard = t,
                                      ![r].fed = @ \o th[t].data]
    /\ UNCHANGED <<workers, connections, next_id, guard, ncalls, returned, logger>>

ConsumeLock(t) ==
    /\ th[t].pc = "consume_lock"
    /\ LET r == th[t].intrp
       IN /\ intrps[r].guard = NoThread
          /\ IF intrps[r].stopped
             THEN /\ th' = [th EXCEPT ![t] = Return(@)]
                  /\ UNCHANGED intrps
             ELSE /\ th' = [th EXCEPT ![t] = [@ EXCEPT !.pc = "consume_loop", !.i = 1]]
                  /\ intrps' = [intrps EXCEPT ![r].guard = t,
                                              ![r].fed = @ \o th[t].data]
    /\ UNCHANGED <<workers, connections, next_id, guard, ncalls, returned, logger>>

\* Impl::consume, lines 149-157, up to and including the next
\* consume_available (lines 144-145); behind the last byte, or when
\* buffer.at() throws, the lock is released and the call ends.
ConsumeLoop(t) ==
    /\ th[t].pc = "consume_loop"
    /\ LET r  == th[t].intrp
           in == intrps[r]
           s  == ScanLine(in.buffer, th[t].data, th[t].i)
       IN CASE s.event = "line" ->
                 LET rc   == ReaderConsume(in.reader, s.buffer)
                     last == s.i > Len(th[t].data)
                 IN /\ \E w1 \in NotifyChoices(workers[in.log_worker]),
                          w2 \in NotifyChoices(workers[in.file_worker]) :
                          workers' = Emit(workers, in, rc.out, w1, w2)
                    /\ intrps' = [intrps EXCEPT ![r].buffer = <<>>,
                                                ![r].reader = rc.reader,
                                                ![r].guard = IF last THEN NoThread ELSE t]
                    /\ th' = [th EXCEPT ![t] = IF last THEN Return(@) ELSE [@ EXCEPT !.i = s.i]]
            [] s.event = "end" ->
                    /\ intrps' = [intrps EXCEPT ![r].buffer = s.buffer, ![r].guard = NoThread]
                    /\ th' = [th EXCEPT ![t] = Return(@)]
                    /\ UNCHANGED workers
            [] s.event = "out_of_range" ->
                    /\ intrps' = [intrps EXCEPT ![r].buffer = s.buffer, ![r].guard = NoThread]
                    /\ th' = [th EXCEPT ![t] = Throw(@)]
                    /\ UNCHANGED workers
    /\ UNCHANGED <<connections, next_id, guard, ncalls, returned, logger>>

----------------------------------------------------------------------------
(* Interpreter::stop_and_log_metrics and Impl::on_eof                      *)

\* line 251-252
StopCheck(t) ==
    /\ th[t].pc = "stop_check"
    /\ \E v \in RacyStopped(th[t].intrp) :
          th' = [th EXCEPT ![t] = IF v THEN Return(@) ELSE [@ EXCEPT !.pc = "stop_lock"]]
    /\ UNCHANGED <<workers, intrps, connections, next_id, guard, ncalls, returned, logger>>

\* lines 255-257
StopLockBadNoRecheck(t) ==
    /\ th[t].pc = "stop_lock"
    /\ intrps[th[t].intrp].guard = NoThread
    /\ th' = [th EXCEPT ![t].pc = "stop_set"]
    /\ intrps' = [intrps EXCEPT ![th[t].intrp].guard = t]
    /\ UNCHANGED <<workers, connections, next_id, guard, ncalls, returned, logger>>

StopLock(t) ==
    /\ th[t].pc = "stop_lock"
    /\ LET r == th[t].intrp
       IN /\ intrps[r].guard = NoThread
          /\ IF intrps[r].stopped
             THEN /\ th' = [th EXCEPT ![t] = Return(@)]
                  /\ UNCHANGED intrps
             ELSE /\ th' = [th EXCEPT ![t].pc = "stop_set"]
                  /\ intrps' = [intrps EXCEPT ![r].guard = t]
    /\ UNCHANGED <<workers, connections, next_id, guard, ncalls, returned, logger>>

\* lines 258-259
StopSet(t) ==
    /\ th[t].pc = "stop_set"
    /\ intrps' = [intrps EXCEPT ![th[t].intrp].stopped = TRUE,
                                ![th[t].intrp].guard = NoThread]
    /\ th' = [th EXCEPT ![t].pc = "eof_flush"]
    /\ UNCHANGED <<workers, connections, next_id, guard, ncalls, returned, logger>>

\* on_eof, lines 161-162: a partial line left in the buffer is consumed.
EofFlush(t) ==
    /\ th[t].pc = "eof_flush"
    /\ LET r  == th[t].intrp
           in == intrps[r]
       IN IF in.buffer # <<>>
          THEN LET rc == ReaderConsume(in.reader, in.buffer)
               IN /\ \E w1 \in NotifyChoices(workers[in.log_worker]),
                        w2 \in NotifyChoices(workers[in.file_worker]) :
                        workers' = Emit(workers, in, rc.out, w1, w2)
                  /\ intrps' = [intrps EXCEPT ![r].buffer = <<>>, ![r].reader = rc.reader]
          ELSE UNCHANGED <<workers, intrps>>
    /\ th' = [th EXCEPT ![t].pc = "eof_reader"]
    /\ UNCHANGED <<connections, next_id, guard, ncalls, returned, logger>>

\* on_eof, line 164: reader.on_eof()
EofReaderBadSkip(t) ==
    /\ th[t].pc = "eof_reader"
    /\ th' = [th EXCEPT ![t].pc = "stop_log"]
    /\ UNCHANGED <<workers, intrps, connections, next_id, guard, ncalls, returned, logger>>

EofReader(t) ==
    /\ th[t].pc = "eof_reader"
    /\ LET r  == th[t].intrp
           in == intrps[r]
           rc == ReaderOnEof(in.reader)
       IN /\ \E w1 \in NotifyChoices(workers[in.log_worker]),
                w2 \in NotifyChoices(workers[in.file_worker]) :
                workers' = Emit(workers, in, rc.out, w1, w2)
          /\ intrps' = [intrps EXCEPT ![r].reader = rc.reader]
    /\ th' = [th EXCEPT ![t].pc = "stop_log"]
    /\ UNCHANGED <<connections, next_id, guard, ncalls, returned, logger>>

\* on_eof, line 167: log_worker->stop()
StopLog(t) ==
    /\ th[t].pc = "stop_log"
    /\ workers' = [workers EXCEPT ![intrps[th[t].intrp].log_worker] = Stop(@)]
    /\ th' = [th EXCEPT ![t].pc = "stop_file"]
    /\ UNCHANGED <<intrps, connections, next_id, guard, ncalls, returned, logger>>

\* on_eof, line 168: file_worker->stop()
StopFile(t) ==
    /\ th[t].pc = "stop_file"
    /\ workers' = [workers EXCEPT ![intrps[th[t].intrp].file_worker] = Stop(@)]
    /\ th' = [th EXCEPT ![t].pc = "join_log"]
    /\ UNCHANGED <<intrps, connections, next_id, guard, ncalls, returned, logger>>

\* on_eof, line 170: log_worker->join()
JoinLog(t) ==
    /\ th[t].pc = "join_log"
    /\ AllExited(workers[intrps[th[t].intrp].log_worker])
    /\ workers' = [workers EXCEPT ![intrps[th[t].intrp].log_worker] = Join(@)]
    /\ th' = [th EXCEPT ![t].pc = "join_file"]
    /\ UNCHANGED <<intrps, connections, next_id, guard, ncalls, returned, logger>>

\* on_eof, line 171: file_worker->join()
JoinFileBadNoWait(t) ==
    /\ th[t].pc = "join_file"
    /\ workers' = [workers EXCEPT ![intrps[th[t].intrp].file_worker] = Join(@)]
    /\ th' = [th EXCEPT ![t].pc = "log_metrics"]
    /\ UNCHANGED <<intrps, connections, next_id, guard, ncalls, returned, logger>>

JoinFile(t) ==
    /\ th[t].pc = "join_file"
    /\ AllExited(workers[intrps[th[t].intrp].file_worker])
    /\ workers' = [workers EXCEPT ![intrps[th[t].intrp].file_worker] = Join(@)]
    /\ th' = [th EXCEPT ![t].pc = "log_metrics"]
    /\ UNCHANGED <<intrps, connections, next_id, guard, ncalls, returned, logger>>

\* stop_and_log_metrics, lines 264-291: read the metrics and log the report.
Report(r) ==
    [ name   |-> intrps[r].name,
      reader |-> intrps[r].reader.metrics,
      log    |-> workers[intrps[r].log_worker].thread_metrics[1],
      files  |-> workers[intrps[r].file_worker].thread_metrics ]

LogMetrics(t) ==
    /\ th[t].pc = "log_metrics"
    /\ logger' = Append(logger, Report(th[t].intrp))
    /\ th' = [th EXCEPT ![t] = Return(@)]
    /\ UNCHANGED <<workers, intrps, connections, next_id, guard, ncalls, returned>>

----------------------------------------------------------------------------
(* The system: calling threads T issue up to maxc boundary calls with      *)
(* block sizes B, handles H and data D, while the worker threads run.      *)

CallerStep(t) ==
    \/ ConnectBody(t)
    \/ ReceiveLookup(t)
    \/ DisconnectLookup(t)
    \/ ConsumeCheck(t)
    \/ ConsumeLock(t)
    \/ ConsumeLoop(t)
    \/ StopCheck(t)
    \/ StopLock(t)
    \/ StopSet(t)
    \/ EofFlush(t)
    \/ EofReader(t)
    \/ StopLog(t)
    \/ StopFile(t)
    \/ JoinLog(t)
    \/ JoinFile(t)
    \/ LogMetrics(t)

Call(t, B, H, D, maxc, maxconns) ==
    \/ \E bulk \in B : ConnectLock(t, bulk, maxc, maxconns)
    \/ \E h \in H, data \in D : ReceiveLock(t, h, data, maxc)
    \/ \E h \in H : DisconnectLock(t, h, maxc)

Handles == 0..(MaxConns - 1)

Bulks == {1, MaxBulk}

Chunks == { <<"a", NL>>, <<"b">> }

Next ==
    \/ \E t \in Callers : Call(t, Bulks, Handles, Chunks, MaxCalls, MaxConns)
    \/ \E t \in Callers : CallerStep(t)
    \/ WorkerStep
    \/ WorkerWake

Spec == Init /\ [][Next]_vars

----------------------------------------------------------------------------
(* Fair scheduling of the threads around one connection.                   *)

NextLive ==
    \/ \E t \in Callers : Call(t, Bulks, {0}, Chunks, MaxLiveCalls, 1)
    \/ \E t \in Callers : CallerStep(t)
    \/ WorkerStep
    \/ WorkerWake

SpecLive == Init /\ [][NextLive]_vars

\* Scheduling: a calling thread inside a call keeps running unless it is
\* blocked on a lock or in join, and so does every worker thread; a thread
\* sleeping on cv_bulks is not owed a wake-up without a notification.
WorkerRun(w, i) ==
    /\ w \in DOMAIN workers
    /\ i \in Threads(workers[w])
    /\ (WorkerWait(w, i) \/ WorkerJob(w, i))

FairSpec ==
    /\ SpecLive
    /\ \A t \in Callers : WF_vars(CallerStep(t))
    /\ WF_vars(WorkerRun(LogWorker(1), 1))
    /\ \A i \in 1..nthreads_per_connection : WF_vars(WorkerRun(FileWorker(1), i))

----------------------------------------------------------------------------
(* One calling thread: the boundary calls follow one another.  The data    *)
(* are all byte sequences of up to MaxChunk bytes and a line longer than   *)
(* the buffer.                                                             *)

\* n copies of byte c
Rep(c, n) == [k \in 1..n |-> c]

SeqBytes == {"a", NL}

SeqChunks ==
    UNION { [1..n -> SeqBytes] : n \in 0..MaxChunk } \cup { Rep("a", BufferCapacity + 1) }

SeqBulks == {MaxBulk}

NextSeq ==
    \/ Call(1, SeqBulks, {0}, SeqChunks, MaxSeqCalls, 1)
    \/ CallerStep(1)
    \/ WorkerStep
    \/ WorkerWake

SpecSeq == Init /\ [][NextSeq]_vars

----------------------------------------------------------------------------
(* One calling thread feeding the lines a, b, c, d, e in pieces.           *)

E2EChunks ==
    { <<"a", NL, "b", NL, "c", NL>>, <<"a", NL, "b", NL>>,
      <<"d", NL, "e", NL>>, <<"d", NL, "e">> }

E2EBulks == {3}

NextE2E ==
    \/ Call(1, E2EBulks, {0}, E2EChunks, MaxSeqCalls, 1)
    \/ CallerStep(1)
    \/ WorkerStep
    \/ WorkerWake

SpecE2E == Init /\ [][NextE2E]_vars

----------------------------------------------------------------------------
(* An Interpreter used on its own: threads call consume and                *)
(* stop_and_log_metrics on one object, at the same time or one after       *)
(* another.                                                                *)

IntrpCallers == {1, 2, 3}

\* Interpreter::Interpreter, lines 231-237
InitIntrp ==
    /\ \E bulk \in Bulks : intrps = <<NewInterpreter(1, 0, bulk)>>
    /\ workers = (LogWorker(1) :> NewWorker(1))
                     @@ (FileWorker(1) :> NewWorker(nthreads_per_connection))
    /\ connections = <<>>
    /\ next_id = 0
    /\ guard = NoThread
    /\ th = [t \in IntrpCallers |-> NoCaller]
    /\ ncalls = 0
    /\ returned = <<>>
    /\ logger = <<>>

\* a call of Interpreter::consume(data), line 239
IntrpConsume(t, data) ==
    /\ th[t].pc = "idle"
    /\ ncalls < MaxIntrpCalls
    /\ ncalls' = ncalls + 1
    /\ th' = [th EXCEPT ![t] = [NoCaller EXCEPT !.pc = "consume", !.intrp = 1, !.data = data]]
    /\ UNCHANGED <<workers, intrps, connections, next_id, guard, returned, logger>>

\* a call of Interpreter::stop_and_log_metrics(), line 250
IntrpStop(t) ==
    /\ th[t].pc = "idle"
    /\ ncalls < MaxIntrpCalls
    /\ ncalls' = ncalls + 1
    /\ th' = [th EXCEPT ![t] = [NoCaller EXCEPT !.pc = "stop_check", !.intrp = 1]]
    /\ UNCHANGED <<workers, intrps, connections, next_id, guard, returned, logger>>

IntrpStep(t) ==
    \/ ConsumeCheck(t)
    \/ ConsumeLock(t)
    \/ ConsumeLoop(t)
    \/ StopCheck(t)
    \/ StopLock(t)
    \/ StopSet(t)
    \/ EofFlush(t)
    \/ EofReader(t)
    \/ StopLog(t)
    \/ StopFile(t)
    \/ JoinLog(t)
    \/ JoinFile(t)
    \/ LogMetrics(t)

NextIntrp ==
    \/ \E t \in IntrpCallers : \E data \in Chunks : IntrpConsume(t, data)
    \/ \E t \in IntrpCallers : IntrpStop(t)
    \/ \E t \in IntrpCallers : IntrpStep(t)
    \/ WorkerStep
    \/ WorkerWake

SpecIntrp == InitIntrp /\ [][NextIntrp]_vars

----------------------------------------------------------------------------
(* Properties                                                              *)

Range(s) == {s[k] : k \in DOMAIN s}

SeqToBag(s) == [x \in Range(s) |-> Cardinality({k \in DOMAIN s : s[k] = x})]

IsPrefix(p, s) == Len(p) <= Len(s) /\ \A k \in 1..Len(p) : p[k] = s[k]

\* the blocks of a history of sends or of job invocations
Stms(h) == [k \in DOMAIN h |-> h[k].stms]

SentBeforeStop(wk) == Stms(SelectSeq(wk.sent, LAMBDA e : ~e.after_stop))

\* C1: once stop() and join() have returned on a Worker with N >= 1 threads,
\* every block whose send() completed before stop() has been passed to the
\* job, no block has been passed to the job more often than it was sent,
\* and when no send() came after stop() the queue is empty and the jobs run
\* are exactly the blocks sent, each once.
WorkerCompleteness ==
    \A w \in DOMAIN workers :
        LET wk == workers[w]
        IN Joined(wk) =>
            /\ SeqToBag(SentBeforeStop(wk)) \sqsubseteq SeqToBag(Stms(wk.jobs))
            /\ SeqToBag(Stms(wk.jobs)) \sqsubseteq SeqToBag(Stms(wk.sent))
            /\ (\A k \in DOMAIN wk.sent : ~wk.sent[k].after_stop) =>
                  /\ wk.bulks = <<>>
                  /\ \A i \in Threads(wk) : wk.thread_pool[i].bulks_local = <<>>
                  /\ SeqToBag(Stms(wk.jobs)) = SeqToBag(Stms(wk.sent))

\* stop() and join() have returned on a two-thread Worker, all sends came
\* before stop(), and both threads have run the job.
WorkerCompletenessWitness ==
    LET wk == workers[PoolId]
    IN /\ PoolId \in DOMAIN workers
       /\ Joined(wk)
       /\ Len(wk.sent) >= 2
       /\ \A k \in DOMAIN wk.sent : ~wk.sent[k].after_stop
       /\ {wk.jobs[k].thread : k \in DOMAIN wk.jobs} = {1, 2}

\* C2: in a Worker with a single thread the job is invoked on the blocks in
\* exactly the order in which send() enqueued them.
SingleThreadOrder ==
    \A w \in DOMAIN workers :
        LET wk == workers[w]
        IN Cardinality(Threads(wk)) = 1 => IsPrefix(Stms(wk.jobs), Stms(wk.sent))

\* A single-thread Worker has run the job on two different blocks, the
\* second of them sent while the first was being drained or processed.
SingleThreadOrderWitness ==
    LET wk == workers[PoolId]
    IN /\ PoolId \in DOMAIN workers
       /\ Cardinality(Threads(wk)) = 1
       /\ Len(wk.jobs) >= 2
       /\ wk.jobs[1].stms # wk.jobs[2].stms
       /\ wk.stopped

\* the number of metrics reports logged under the name of handle h
ReportsFor(h) == Cardinality({k \in DOMAIN logger : logger[k].name = h})

\* the calling threads inside stop_and_log_metrics of Interpreter r
Stopping(r) ==
    {t \in DOMAIN th : th[t].intrp = r /\ th[t].pc \notin {"idle", "receive", "consume",
                                                          "consume_lock", "consume_loop"}}

\* C3: any number of disconnect calls on a handle, one after another or at
\* the same time, yield exactly one metrics report: there is never more than
\* one report for a handle, there is one as soon as the call that took the
\* handle out of the table has returned, and every other disconnect call on
\* the handle returns at its lookup and changes nothing.
DisconnectIdempotent ==
    /\ [](\A r \in 1..Len(intrps) :
            /\ ReportsFor(intrps[r].name) <= 1
            /\ (intrps[r].erased /\ Stopping(r) = {}) => ReportsFor(intrps[r].name) = 1)
    /\ [][\A t \in DOMAIN th :
            (th[t].pc = "disconnect" /\ ~InUse(th[t].handle) /\ th'[t] # th[t])
                => /\ th'[t].pc = "idle"
                   /\ UNCHANGED <<workers, intrps, connections, next_id, returned, logger>>]_vars

\* A second disconnect of a handle is at its lookup while the first one is
\* waiting for the file workers to finish.
DisconnectIdempotentWitness ==
    \E t, u \in DOMAIN th :
        /\ th[t].pc = "join_file"
        /\ th[u].pc = "disconnect"
        /\ th[u].handle = intrps[th[t].intrp].name

\* C4: a receive whose handle was never returned by connect, or was taken
\* out of the table by a disconnect, returns at its lookup without an error
\* and leaves the table, every Interpreter (buffer, reader) and every Worker
\* unchanged.
ReceiveUnknownNoop ==
    [][\A t \in DOMAIN th :
            (th[t].pc = "receive" /\ ~InUse(th[t].handle) /\ th'[t] # th[t])
                => /\ th'[t].pc = "idle"
                   /\ ~th'[t].fault
                   /\ UNCHANGED <<workers, intrps, connections, next_id, returned, logger>>]_vars

\* A receive on a handle that a disconnect had taken out of the table has
\* come back from its lookup.
ReceiveUnknownNoopWitness ==
    \E t \in DOMAIN th : \E r \in 1..Len(intrps) :
        /\ th[t].pc = "idle"
        /\ th[t].noop = "receive"
        /\ intrps[r].name = th[t].handle
        /\ intrps[r].erased

\* C5: the handles returned by connect are strictly increasing in the order
\* of return (so no two are equal, also after a disconnect), no two
\* Interpreters ever bear the same handle, and the table maps a handle only
\* to the Interpreter created for it, while that is not disconnected.
HandlesUnique ==
    /\ \A j, k \in DOMAIN returned : j < k => returned[j] < returned[k]
    /\ \A q, r \in 1..Len(intrps) : q # r => intrps[q].name # intrps[r].name
    /\ \A h \in DOMAIN connections :
            /\ connections[h] \in 1..Len(intrps)
            /\ intrps[connections[h]].name = h
            /\ ~intrps[connections[h]].erased

\* A connect has returned after an earlier handle was disconnected.
HandlesUniqueWitness ==
    /\ Len(returned) >= 2
    /\ \E r \in 1..Len(intrps) : intrps[r].erased /\ intrps[r].name < returned[Len(returned)]

\* Impl::on_eof of Interpreter r has run to its end.
Closed(r) == Joined(workers[intrps[r].file_worker])

\* C6: the lines handed to the reader up to and including disconnect are
\* the same for every way of splitting the bytes over consecutive receive
\* calls as for a single receive call with all the bytes.
ChunkingInvariance ==
    \A r \in 1..Len(intrps) :
        Closed(r) => intrps[r].reader.lines = WholeLines(intrps[r].fed)

\* C7: no receive call ends with an error propagated to its caller.
ReceiveNeverThrows == \A t \in DOMAIN th : ~th[t].fault

RECURSIVE SumNat(_, _)
SumNat(f, S) ==
    IF S = {} THEN 0
    ELSE LET x == CHOOSE y \in S : TRUE IN f[x] + SumNat(f, S \ {x})

\* the number of statements in a sequence of blocks
Statements(blocks) == SumNat([k \in DOMAIN blocks |-> Len(blocks[k])], DOMAIN blocks)

\* C8: every block is sent to the log worker and to the file worker alike,
\* and in every metrics report the block count of the logging thread and
\* the sum of the block counts of the file threads equal the number of
\* blocks sent over the connection's lifetime, the statement counts the
\* number of statements in those blocks.
MetricsComplete ==
    \A r \in 1..Len(intrps) :
        LET lw == workers[intrps[r].log_worker]
            fw == workers[intrps[r].file_worker]
        IN /\ Stms(lw.sent) = Stms(fw.sent)
           /\ \A k \in DOMAIN logger :
                logger[k].name = intrps[r].name =>
                    /\ logger[k].log.nblocks = Len(lw.sent)
                    /\ logger[k].log.nstatements = Statements(Stms(lw.sent))
                    /\ SumNat([i \in DOMAIN logger[k].files |-> logger[k].files[i].nblocks],
                              DOMAIN logger[k].files) = Len(fw.sent)
                    /\ SumNat([i \in DOMAIN logger[k].files |-> logger[k].files[i].nstatements],
                              DOMAIN logger[k].files) = Statements(Stms(fw.sent))

\* A report has been logged for a connection whose last block was flushed
\* at end-of-stream.
MetricsCompleteWitness ==
    \E k \in DOMAIN logger : \E r \in 1..Len(intrps) :
        /\ logger[k].name = intrps[r].name
        /\ logger[k].log.nblocks >= 1
        /\ logger[k].reader.nstatements = 1
        /\ intrps[r].reader.block_size = 2

\* C9: under fair scheduling a disconnect that has found its handle in the
\* table returns: the workers of both pools leave their loops after stop()
\* and both join() calls come back, whether the workers were idle or busy,
\* and no thread is left blocked on a lock.
ShutdownTerminates ==
    \A t \in Callers :
        /\ (th[t].pc = "stop_check") ~> (th[t].pc = "idle")
        /\ (th[t].pc # "idle") ~> (th[t].pc = "idle")

\* A disconnect has returned for a connection that never submitted a block:
\* all its workers were asleep on the empty queue when stop() came.
ShutdownTerminatesWitness ==
    \E k \in DOMAIN logger : \E r \in 1..Len(intrps) :
        /\ logger[k].name = intrps[r].name
        /\ workers[intrps[r].log_worker].sent = <<>>
        /\ Joined(workers[intrps[r].file_worker])

\* the lines of a byte sequence: the pieces between line terminators, and
\* a last piece without terminator when it is not empty
RECURSIVE SplitLines(_)
SplitLines(data) ==
    LET nls == {k \in DOMAIN data : data[k] = NL}
    IN IF nls = {} THEN (IF data = <<>> THEN <<>> ELSE <<data>>)
       ELSE LET p == CHOOSE k \in nls : \A j \in nls : k <= j
            IN <<SubSeq(data, 1, p - 1)>> \o SplitLines(SubSeq(data, p + 1, Len(data)))

\* consecutive groups of k lines, the last one possibly shorter
RECURSIVE Groups(_, _)
Groups(lines, k) ==
    IF lines = <<>> THEN <<>>
    ELSE IF Len(lines) <= k THEN <<lines>>
    ELSE <<SubSeq(lines, 1, k)>> \o Groups(SubSeq(lines, k + 1, Len(lines)), k)

\* C10: after disconnect the blocks sent to both workers are the
\* consecutive groups of k of the lines fed, in order, with a final shorter
\* block for the remaining lines, and the reader's counts in the report are
\* the number of lines and of blocks; without any receive there is no block
\* and every count is 0.
EndToEndFlush ==
    \A r \in 1..Len(intrps) :
        LET in     == intrps[r]
            lines  == SplitLines(in.fed)
            blocks == Groups(lines, in.reader.block_size)
        IN Closed(r) =>
            /\ Stms(workers[in.log_worker].sent) = blocks
            /\ Stms(workers[in.file_worker].sent) = blocks
            /\ \A k \in DOMAIN logger :
                  logger[k].name = in.name =>
                      /\ logger[k].reader = [nlines |-> Len(lines), nstatements |-> Len(lines),
                                             nblocks |-> Len(blocks)]
                      /\ logger[k].log = [nblocks |-> Len(blocks), nstatements |-> Len(lines)]

\* With blocks of 3 lines, the lines a, b, c, d, e were fed and the
\* connection closed: the blocks {a,b,c} and {d,e} went to both workers and
\* the report counts 2 blocks and 5 statements.
EndToEndFlushWitness ==
    \E r \in 1..Len(intrps) : \E k \in DOMAIN logger :
        /\ intrps[r].reader.block_size = 3
        /\ intrps[r].fed = <<"a", NL, "b", NL, "c", NL, "d", NL, "e", NL>>
        /\ Stms(workers[intrps[r].file_worker].sent)
              = << << <<"a">>, <<"b">>, <<"c">> >>, << <<"d">>, <<"e">> >> >>
        /\ logger[k].name = intrps[r].name
        /\ logger[k].reader.nblocks = 2
        /\ logger[k].reader.nstatements = 5

\* the calling threads that run the shutdown work of Interpreter r
Shutting(r) ==
    {t \in DOMAIN th : th[t].intrp = r /\ th[t].pc \in {"eof_flush", "eof_reader", "stop_log",
                                                       "stop_file", "join_log", "join_file",
                                                       "log_metrics"}}

\* C11: the caller that runs the shutdown work goes through it in this
\* order: the partial line left in the buffer is handed to the reader,
\* end-of-stream is signalled to the reader, both workers are stopped (the
\* log worker first), both are joined (the log worker first), the metrics
\* are read and logged.  The metrics are read only when every thread of
\* both workers has run to its end, and they never differ from the report
\* afterwards.
ShutdownSequence ==
    /\ \A t \in DOMAIN th : \A r \in 1..Len(intrps) :
          (th[t].intrp = r /\ t \in Shutting(r)) =>
              LET in == intrps[r]
                  lw == workers[in.log_worker]
                  fw == workers[in.file_worker]
                  pc == th[t].pc
              IN /\ (pc = "eof_flush") => ~in.reader.eof
                 /\ (pc # "eof_flush") =>
                        /\ in.buffer = <<>>
                        /\ in.reader.metrics.nlines = Len(SplitLines(in.fed))
                 /\ (pc = "eof_reader") => ~in.reader.eof
                 /\ (pc \notin {"eof_flush", "eof_reader"}) => in.reader.eof /\ in.reader.cur = <<>>
                 /\ (pc \in {"eof_flush", "eof_reader", "stop_log"}) => ~lw.stopped /\ ~fw.stopped
                 /\ (pc = "stop_file") => lw.stopped /\ ~fw.stopped
                 /\ (pc \in {"join_log", "join_file", "log_metrics"}) => lw.stopped /\ fw.stopped
                 /\ (pc # "log_metrics") => ~Joined(fw)
                 /\ (pc \notin {"join_file", "log_metrics"}) => ~Joined(lw)
                 /\ (pc \in {"join_file", "log_metrics"}) => Joined(lw) /\ AllExited(lw)
                 /\ (pc = "log_metrics") => Joined(fw) /\ AllExited(fw)
                 /\ ReportsFor(in.name) = 0
    /\ \A k \in DOMAIN logger : \A r \in 1..Len(intrps) :
          logger[k].name = intrps[r].name =>
              LET lw == workers[intrps[r].log_worker]
                  fw == workers[intrps[r].file_worker]
              IN /\ AllExited(lw) /\ AllExited(fw)
                 /\ logger[k].log = lw.thread_metrics[1]
                 /\ logger[k].files = fw.thread_metrics
                 /\ logger[k].reader = intrps[r].reader.metrics

\* The caller of the shutdown is about to read the metrics: the partial
\* line b was flushed as the last line, its block went to the workers and
\* both file threads have come to their end, one of them after a job.
ShutdownSequenceWitness ==
    \E t \in DOMAIN th : \E r \in 1..Len(intrps) :
        /\ th[t].pc = "log_metrics"
        /\ th[t].intrp = r
        /\ intrps[r].reader.lines = << <<"b">> >>
        /\ workers[intrps[r].file_worker].jobs # <<>>
        /\ workers[intrps[r].log_worker].jobs # <<>>

\* the calling threads that have won the stopped flag of Interpreter r: they
\* hold its lock and are about to set the flag, or run the shutdown work
Winners(r) ==
    Shutting(r) \cup {t \in DOMAIN th : th[t].intrp = r /\ th[t].pc = "stop_set"}

\* C12: of any number of stop_and_log_metrics calls on one Interpreter, at
\* the same time or one after another, exactly one sets stopped and runs
\* the shutdown work up to the report; every other call returns from one
\* of the two checks of stopped and changes neither the Interpreter, nor a
\* Worker, nor the log; stopped never goes back to false.
StopAtMostOnce ==
    /\ [](\A r \in 1..Len(intrps) :
            /\ Cardinality(Winners(r)) + ReportsFor(intrps[r].name) <= 1
            /\ intrps[r].stopped <=> (Shutting(r) # {} \/ ReportsFor(intrps[r].name) = 1))
    /\ [][\A r \in 1..Len(intrps) : intrps[r].stopped => intrps'[r].stopped]_vars
    /\ [][\A t \in DOMAIN th :
            (th[t].pc \in {"stop_check", "stop_lock"} /\ th'[t].pc = "idle")
                => UNCHANGED <<workers, intrps, logger>>]_vars

\* Two calls have passed the first check of stopped; one holds the lock and
\* is about to set the flag, the other waits for the lock; a third call has
\* not yet read the flag.
StopAtMostOnceWitness ==
    \E t, u, v \in DOMAIN th :
        /\ th[t].pc = "stop_set"
        /\ th[u].pc = "stop_lock"
        /\ th[v].pc = "stop_check"
        /\ th[t].intrp = th[u].intrp
        /\ th[t].intrp = th[v].intrp

\* p can be had from s by leaving elements out
RECURSIVE IsSubseq(_, _)
IsSubseq(p, s) ==
    IF p = <<>> THEN TRUE
    ELSE IF s = <<>> THEN FALSE
    ELSE IF Head(p) = Head(s) THEN IsSubseq(Tail(p), Tail(s))
    ELSE IsSubseq(p, Tail(s))

\* the blocks thread i of a Worker has run the job on, in the order of the
\* job invocations
ThreadJobs(wk, i) == Stms(SelectSeq(wk.jobs, LAMBDA e : e.thread = i))

\* C13: in a Worker with any number of threads, the blocks one thread runs
\* the job on, followed by those it has drained and not yet run, are in the
\* order in which they were enqueued; a drain takes the whole queue and
\* leaves it empty, and the job is run on the drained blocks front to back.
PerThreadOrder ==
    /\ [](\A w \in DOMAIN workers : \A i \in Threads(workers[w]) :
            IsSubseq(ThreadJobs(workers[w], i) \o workers[w].thread_pool[i].bulks_local,
                     Stms(workers[w].sent)))
    /\ [][\A w \in DOMAIN workers : \A i \in Threads(workers[w]) :
            LET wk == workers[w]
                t  == wk.thread_pool[i]
            IN /\ (t.pc = "lock" /\ workers'[w].thread_pool[i].pc \in {"process", "done"})
                    => /\ workers'[w].bulks = <<>>
                       /\ workers'[w].thread_pool[i].bulks_local = wk.bulks
               /\ (t.pc = "process" /\ workers'[w].thread_pool[i] # t)
                    => /\ workers'[w].jobs = Append(wk.jobs, [thread |-> i,
                                                              stms |-> Head(t.bulks_local)])
                       /\ workers'[w].thread_pool[i].bulks_local = Tail(t.bulks_local)]_vars

\* In a two-thread Worker one thread has run the job on two different
\* blocks and holds no more, the other thread has run a job as well.
PerThreadOrderWitness ==
    LET wk == workers[PoolId]
    IN /\ PoolId \in DOMAIN workers
       /\ Cardinality(Threads(wk)) = 2
       /\ \E i, j \in Threads(wk) :
             /\ i # j
             /\ Len(ThreadJobs(wk, i)) >= 2
             /\ ThreadJobs(wk, i)[1] # ThreadJobs(wk, i)[2]
             /\ Len(ThreadJobs(wk, j)) >= 1

\* the places of block x in the history of sends
Places(wk, x) == {k \in DOMAIN wk.sent : wk.sent[k].stms = x}

\* the place of a block sent once
Place(wk, x) == CHOOSE k \in Places(wk, x) : TRUE

\* job invocation j came before job invocation k although its block, sent
\* once like the other, was enqueued after that one
Inverted(wk, j, k) ==
    /\ j < k
    /\ Cardinality(Places(wk, wk.jobs[j].stms)) = 1
    /\ Cardinality(Places(wk, wk.jobs[k].stms)) = 1
    /\ Place(wk, wk.jobs[j].stms) > Place(wk, wk.jobs[k].stms)

\* C14: a Worker gives no order across its threads: the job may run on a
\* block before it runs on a block enqueued earlier, which happens only
\* when two different threads have drained the two blocks, so never in a
\* Worker with one thread.
CrossThreadDisorder ==
    \A w \in DOMAIN workers :
        LET wk == workers[w]
        IN \A j, k \in DOMAIN wk.jobs :
              Inverted(wk, j, k) =>
                  /\ wk.jobs[j].thread # wk.jobs[k].thread
                  /\ Cardinality(Threads(wk)) > 1

\* Block a was enqueued before block b; one thread drained a, another one
\* drained b and has run the job on it before the first one did on a.
CrossThreadDisorderWitness ==
    LET wk == workers[PoolId]
    IN /\ PoolId \in DOMAIN workers
       /\ Len(wk.sent) >= 2
       /\ wk.sent[1].stms = <<<<"a">>>>
       /\ wk.sent[2].stms = <<<<"b">>>>
       /\ Len(wk.jobs) >= 2
       /\ wk.jobs[1].stms = <<<<"b">>>>
       /\ wk.jobs[2].stms = <<<<"a">>>>
       /\ wk.jobs[1].thread # wk.jobs[2].thread

\* C15: send() racing with stop() on a Worker used on its own: a block
\* enqueued when every thread had made its last drain stays in the queue
\* and is never passed to the job, while a block enqueued after stop() with
\* a thread still to make its last drain is run like any other.  When all
\* threads have come to their end, the queue holds exactly the blocks of
\* the first kind, and the jobs run are exactly the other blocks; a thread
\* makes its last drain only after stop().
LateSendFate ==
    \A w \in DOMAIN workers :
        LET wk   == workers[w]
            lost == SelectSeq(wk.sent, LAMBDA e : e.live = 0)
            kept == SelectSeq(wk.sent, LAMBDA e : e.live > 0)
        IN /\ \A k \in DOMAIN wk.sent :
                 wk.sent[k].live < Cardinality(Threads(wk)) => wk.sent[k].after_stop
           /\ IsSubseq(Stms(lost), wk.bulks)
           /\ AllExited(wk) =>
                 /\ wk.bulks = Stms(lost)
                 /\ SeqToBag(Stms(wk.jobs)) = SeqToBag(Stms(kept))

\* stop() and join() have returned; a block enqueued after stop() while a
\* thread had its last drain ahead was run, and a block enqueued after the
\* last thread's last drain is left in the queue.
LateSendFateWitness ==
    LET wk == workers[PoolId]
    IN /\ PoolId \in DOMAIN workers
       /\ Joined(wk)
       /\ wk.bulks # <<>>
       /\ \E k \in DOMAIN wk.sent :
             /\ wk.sent[k].after_stop
             /\ wk.sent[k].live > 0
             /\ wk.sent[k].stms \in Range(Stms(wk.jobs))
             /\ wk.sent[k].stms \notin Range(wk.bulks)

\* every thread of the Worker is inside a job or has come to its end
AllBusy(wk) == \A i \in Threads(wk) : wk.thread_pool[i].pc \in {"process", "done"}

\* C16: send() never waits for a worker to become available: a worker
\* thread holds the Worker's lock only between taking it at the top of its
\* loop and the wait or the swap of the queue, never while a job runs; with
\* every worker thread inside a job or at its end the lock is free or held
\* by another caller; a push appends whatever the length of the queue; and
\* every send() returns, however long the jobs take.
SendNeverWaits ==
    /\ [](\A w \in DOMAIN workers : \A i \in Threads(workers[w]) :
            (workers[w].guard = WorkerThread(i)) <=> (workers[w].thread_pool[i].pc = "locked"))
    /\ [](\A w \in DOMAIN workers :
            AllBusy(workers[w]) => workers[w].guard.kind # "worker")
    /\ [][\A t \in DOMAIN th :
            (th[t].pc = "send_locked" /\ th'[t] # th[t])
                => /\ workers'[PoolId].bulks = Append(workers[PoolId].bulks, th[t].data)
                   /\ th'[t].pc = "idle"]_vars
    /\ \A t \in Callers : (th[t].pc = "send") ~> (th[t].pc = "idle")

\* Both threads of a Worker are inside a job and a block pushed since then
\* is in the queue, its send() having returned.
SendNeverWaitsWitness ==
    LET wk == workers[PoolId]
    IN /\ PoolId \in DOMAIN workers
       /\ Cardinality(Threads(wk)) = 2
       /\ \A i \in Threads(wk) : wk.thread_pool[i].pc = "process"
       /\ wk.bulks # <<>>
       /\ wk.guard = Nobody
       /\ \A t \in DOMAIN th : th[t].pc = "idle"

\* C17: the table lock is held only from the first line of connect, receive
\* or disconnect to the end of the lookup, never while consume or
\* stop_and_log_metrics runs; the step of its holder is never blocked, so
\* with a thread inside disconnect, waiting for workers to come to their
\* end, any other call gets the table lock and gets through its lookup.
TableLockShort ==
    /\ guard = NoThread \/ guard \in DOMAIN th
    /\ \A t \in DOMAIN th :
          /\ (guard = t) <=> (th[t].pc \in {"connect", "receive", "disconnect"})
          /\ (th[t].pc = "connect") => ENABLED ConnectBody(t)
          /\ (th[t].pc = "receive") => ENABLED ReceiveLookup(t)
          /\ (th[t].pc = "disconnect") => ENABLED DisconnectLookup(t)

\* One thread is inside disconnect, in the join of a Worker with a thread
\* still running, while another thread holds the table lock in connect.
TableLockShortWitness ==
    \E t, u \in DOMAIN th :
        /\ th[t].pc \in {"join_log", "join_file"}
        /\ ~AllExited(workers[intrps[th[t].intrp].file_worker])
        /\ guard = u
        /\ th[u].pc = "connect"

\* the calling threads at work on the buffer and the reader of Interpreter
\* r: inside Impl::consume, or in the first two steps of on_eof
BufferUsers(r) ==
    {t \in DOMAIN th : th[t].intrp = r /\ th[t].pc \in {"consume_loop", "eof_flush",
                                                       "eof_reader"}}

\* C19: the buffer and the reader of an Interpreter are never used by two
\* threads at once, although on_eof runs without the Interpreter's lock: a
\* thread is inside Impl::consume only with the lock held and stopped
\* false, and none is while a thread runs the shutdown work; after
\* end-of-stream no line is handed to the reader, and once stopped is set
\* no byte is accepted; a receive that got hold of the Interpreter before
\* its removal from the table has either handed over all its bytes before
\* the shutdown work began, or none at all.
BufferExclusive ==
    /\ [](\A r \in 1..Len(intrps) :
            /\ Cardinality(BufferUsers(r)) <= 1
            /\ \A t \in DOMAIN th :
                  (th[t].intrp = r /\ th[t].pc = "consume_loop")
                      => /\ intrps[r].guard = t
                         /\ ~intrps[r].stopped
                         /\ Shutting(r) = {}
            /\ (intrps[r].stopped /\ \A t \in Shutting(r) : th[t].pc # "eof_flush")
                  => /\ intrps[r].buffer = <<>>
                     /\ intrps[r].reader.lines = SplitLines(intrps[r].fed))
    /\ [][\A r \in 1..Len(intrps) :
            /\ intrps[r].stopped => intrps'[r].fed = intrps[r].fed
            /\ intrps[r].reader.eof => /\ intrps'[r].reader.lines = intrps[r].reader.lines
                                       /\ intrps'[r].buffer = intrps[r].buffer]_vars

\* A receive has copied the pointer out of the table and passed the first
\* check of stopped; then a disconnect removed the handle, set stopped and
\* is inside on_eof: the receive will find stopped set under the lock
\* and return without effect.
BufferExclusiveWitness ==
    \E t, u \in DOMAIN th : \E r \in 1..Len(intrps) :
        /\ th[t].pc = "consume_lock"
        /\ th[t].intrp = r
        /\ th[u].pc = "eof_reader"
        /\ th[u].intrp = r
        /\ intrps[r].stopped
        /\ intrps[r].erased

\* C20: a worker thread comes to its end only after stop(): while stopped
\* is false every thread of the Worker is alive and has not read stopped as
\* true, so that a join() without a stop() before it (that of ~Worker)
\* does not return; stopped is never reset; the first drain of a thread
\* after stop() is its last one, and the thread ends after the blocks of
\* that drain.
ExitOnlyAfterStop ==
    /\ [](\A w \in DOMAIN workers :
            LET wk == workers[w]
            IN /\ ~wk.stopped => ~AllExited(wk) /\ ~Joined(wk)
               /\ \A i \in Threads(wk) :
                     LET t == wk.thread_pool[i]
                     IN /\ ~wk.stopped => (t.pc # "done" /\ ~t.exit)
                        /\ t.pc = "done" => t.exit
                        /\ t.exit => (wk.stopped /\ t.pc \in {"process", "done"}))
    /\ [][\A w \in DOMAIN workers :
            /\ workers[w].stopped => workers'[w].stopped
            /\ \A i \in Threads(workers[w]) :
                  LET t == workers[w].thread_pool[i]
                      u == workers'[w].thread_pool[i]
                  IN /\ (t.pc = "lock" /\ workers[w].stopped /\ u # t) => u.exit
                     /\ t.exit => u.exit]_vars

\* A two-thread Worker has run the job on every block sent and both threads
\* sleep on the empty queue; stop() has not been called, and a join() now
\* would wait for good.
ExitOnlyAfterStopWitness ==
    LET wk == workers[PoolId]
    IN /\ PoolId \in DOMAIN workers
       /\ Cardinality(Threads(wk)) = 2
       /\ ~wk.stopped
       /\ Len(wk.sent) >= 2
       /\ Len(wk.jobs) = Len(wk.sent)
       /\ \A i \in Threads(wk) : wk.thread_pool[i].pc = "waiting"

\* the number of blocks thread i of a Worker has written to its file
Succeeded(wk, i) ==
    Cardinality({k \in DOMAIN wk.jobs : wk.jobs[k].thread = i /\ wk.jobs[k].ok})

\* C18: a file job that fails to open or write its file does not end the
\* worker thread, and the metrics of the thread tell the block from the
\* ones written: the block count reported is the number of blocks written,
\* not the number of blocks the job was run on.
FailedWriteDegradesMetrics ==
    \A w \in DOMAIN workers : \A i \in Threads(workers[w]) :
        /\ workers[w].thread_metrics[i].nblocks = Succeeded(workers[w], i)
        /\ (workers[w].thread_pool[i].pc = "done") => workers[w].thread_pool[i].exit

====
